---- MODULE Spec2Model ----
(***************************************************************************)
(* Model of ghs (src/main.rs): a command-line tool that asks the GitHub    *)
(* search endpoint for the repositories of one user, filters the decoded   *)
(* list locally by name, description and language, and prints one block    *)
(* per surviving repository.                                               *)
(*                                                                         *)
(* Strings are sequences of characters (one-character TLA+ strings, or a   *)
(* fixed literal of the program kept as one token).  Option<T> is a        *)
(* sequence of length 0 (None) or 1 (Some).                                *)
(***************************************************************************)
EXTENDS Integers, Sequences, FiniteSets, TLC

VARIABLES
    argv,            \* the command line the process was started with
    tokenEnv,        \* the GITHUB_ACCESS_TOKEN entry of the environment
    remote,          \* what the remote service answers to a request
    pc,              \* the stage main is about to run
    stages,          \* the stages main has entered so far, in order
    requests,        \* request targets handed to the transport, in order
    repositories,    \* Repositories.items decoded from the response
    filtered_repos,  \* result of filter_repositories
    cursor,          \* number of items the for loop has consumed
    stdout,          \* blocks written to standard output, in order
    exit_code        \* Option: the process exit status once it has ended

vars == <<argv, tokenEnv, remote, pc, stages, requests, repositories,
          filtered_repos, cursor, stdout, exit_code>>

----------------------------------------------------------------------------
(* Bounds *)

MaxItems == 2

----------------------------------------------------------------------------
(* Option<T> *)

None == <<>>
Some(x) == <<x>>
is_some(o) == Len(o) = 1
unwrap(o) == o[1]

\* Option::unwrap_or_else(|| default)
unwrap_or_else(o, default) == IF is_some(o) THEN unwrap(o) ELSE default

----------------------------------------------------------------------------
(* str::to_lowercase and str::contains *)

to_lowercase_char(c) ==
    CASE c = "G" -> "g"
      [] c = "O" -> "o"
      [] c = "L" -> "l"
      [] c = "A" -> "a"
      [] c = "N" -> "n"
      [] OTHER -> c

to_lowercase(s) == [i \in 1..Len(s) |-> to_lowercase_char(s[i])]

contains(haystack, needle) ==
    \E off \in 0..(Len(haystack) - Len(needle)) :
        SubSeq(haystack, off + 1, off + Len(needle)) = needle

----------------------------------------------------------------------------
(* struct Repository and filter_repositories *)

Repository(name, description, language) ==
    [name |-> name, description |-> description, language |-> language]

\* title_filter with only the filter text lower-cased
title_filter_name_case(repo, title) ==
    IF is_some(title)
    THEN contains(repo.name, to_lowercase(unwrap(title)))
    ELSE TRUE

\* title.map_or(true, |title| repo.name.to_lowercase().contains(&title.to_lowercase()))
title_filter(repo, title) ==
    IF is_some(title)
    THEN contains(to_lowercase(repo.name), to_lowercase(unwrap(title)))
    ELSE TRUE

\* description_filter with an absent description read as the empty string
description_filter_absent_as_empty(repo, description) ==
    IF is_some(description)
    THEN contains(to_lowercase(unwrap_or_else(repo.description, <<>>)),
                  to_lowercase(unwrap(description)))
    ELSE TRUE

\* description.map_or(true, |description|
\*     repo.description.as_ref().map_or(false, |repo_description| ..contains..))
description_filter(repo, description) ==
    IF is_some(description)
    THEN IF is_some(repo.description)
         THEN contains(to_lowercase(unwrap(repo.description)),
                       to_lowercase(unwrap(description)))
         ELSE FALSE
    ELSE TRUE

\* language_filter with a substring test in place of the equality
language_filter_substring(repo, language) ==
    IF is_some(language)
    THEN IF is_some(repo.language)
         THEN contains(to_lowercase(unwrap(repo.language)),
                       to_lowercase(unwrap(language)))
         ELSE FALSE
    ELSE TRUE

\* language.map_or(true, |language|
\*     repo.language.as_ref().map_or(false, |repo_language| .. == ..))
language_filter(repo, language) ==
    IF is_some(language)
    THEN IF is_some(repo.language)
         THEN to_lowercase(unwrap(repo.language)) = to_lowercase(unwrap(language))
         ELSE FALSE
    ELSE TRUE

\* filter_repositories collecting the survivors last to first
filter_repositories_reversed(items, title, description, language) ==
    LET kept == SelectSeq(items,
                    LAMBDA r : /\ title_filter(r, title)
                               /\ description_filter(r, description)
                               /\ language_filter(r, language))
    IN  [i \in 1..Len(kept) |-> kept[Len(kept) + 1 - i]]

\* items.into_iter().filter(..).filter(..).filter(..).collect(): each filter
\* keeps, in iteration order, the items its closure accepts
filter_repositories(items, title, description, language) ==
    LET by_title == SelectSeq(items, LAMBDA r : title_filter(r, title))
        by_description ==
            SelectSeq(by_title, LAMBDA r : description_filter(r, description))
    IN  SelectSeq(by_description, LAMBDA r : language_filter(r, language))

----------------------------------------------------------------------------
(* print_repo: the block println! writes, as its four lines *)

\* print_repo with an absent field printed as the empty string
print_repo_no_placeholder(repo) ==
    << <<"Repository Name: ">> \o repo.name,
       <<"Description: ">> \o unwrap_or_else(repo.description, <<>>),
       <<"Language: ">> \o unwrap_or_else(repo.language, <<>>),
       <<"---">> >>

print_repo(repo) ==
    LET description == unwrap_or_else(repo.description, <<"No description">>)
        language == unwrap_or_else(repo.language, <<"No language specified">>)
    IN  << <<"Repository Name: ">> \o repo.name,
           <<"Description: ">> \o description,
           <<"Language: ">> \o language,
           <<"---">> >>

----------------------------------------------------------------------------
(* search_github_repositories: the URL, the request, the decoded body *)

\* format!("user:{}", github_username)
search_query(github_username) == <<"user:">> \o github_username

\* format!("https://api.github.com/search/repositories?q={}&per_page=100", query)
format_url(query) ==
    <<"https://api.github.com/search/repositories", "?", "q", "=">>
        \o query \o <<"&", "per_page", "=", "100">>

\* client.get(url): the string is parsed as a URL.  Everything from the first
\* '#' on is the fragment, which is not part of the request target; a space in
\* the query is percent-encoded; '&', '=', '+' and '%' are left as they are.
request_target(url) ==
    LET hashes == {i \in 1..Len(url) : url[i] = "#"}
        cut == IF hashes = {} THEN Len(url)
               ELSE (CHOOSE i \in hashes : \A j \in hashes : i <= j) - 1
    IN  [i \in 1..cut |-> IF url[i] = " " THEN "%20" ELSE url[i]]

\* json keeping the items read before a body broke off
json_partial(response) ==
    IF response.body.kind \in {"items", "truncated"}
    THEN Some(response.body.items) ELSE None

\* Response::json::<Repositories>(): the whole body is read and then decoded;
\* a body that is not complete JSON, or has no `items` array, is an error.
\* The status of the response is not looked at.
json(response) ==
    IF response.body.kind = "items" THEN Some(response.body.items) ELSE None

\* The Result of search_github_repositories: Some(items) for Ok, None for Err
search_github_repositories(response) ==
    IF response.transport = "error" THEN None ELSE json(response)

----------------------------------------------------------------------------
(* Inputs: the command line, the environment and the remote's answer *)

SeqsUpTo(S, n) == UNION {[1..k -> S] : k \in 0..n}

Usernames ==
    { <<"a">>,
      <<"a", " ", "b">>,
      <<"a", "+", "b">>,
      <<"a", "%20">>,
      <<"a", "#">>,
      <<"a", "&", "per_page", "=", "1">> }

Names == { <<"g", "o">>, <<"O", "g">> }
Descriptions == { None, Some(<<>>), Some(<<"G", "o">>) }
Languages == { None, Some(<<"G", "o">>), Some(<<"g">>) }

Items == { Repository(n, d, l) : n \in Names, d \in Descriptions, l \in Languages }

TitleArgs == { None, Some(<<"G", "O">>), Some(<<"o">>) }
DescriptionArgs == { None, Some(<<>>), Some(<<"O">>) }
LanguageArgs ==
    { None, Some(<<>>), Some(<<"g", "o">>), Some(<<"G", "O">>), Some(<<"g">>),
      Some(<<"g", "o", "l", "a", "n", "g">>) }

\* A command line clap accepts: --username and the three optional filters
Matches(username, title, description, language) ==
    [kind |-> "ok", username |-> username, title |-> title,
     description |-> description, language |-> language]

\* A command line clap ends the process on: --help, or a usage error such as
\* a missing --username
NoMatches(kind) ==
    [kind |-> kind, username |-> <<>>, title |-> None,
     description |-> None, language |-> None]

Response(status, kind, items) ==
    [transport |-> "ok", status |-> status, body |-> [kind |-> kind, items |-> items]]

TransportError ==
    [transport |-> "error", status |-> 0, body |-> [kind |-> "none", items |-> <<>>]]

\* Items of the orchestration runs: one per way a field can be absent
RunItems ==
    { Repository(<<"g", "o">>, Some(<<"G", "o">>), Some(<<"G", "o">>)),
      Repository(<<"O", "g">>, None, Some(<<"G", "o">>)),
      Repository(<<"g", "o">>, Some(<<>>), None) }

RunArgv ==
    { NoMatches("help"), NoMatches("usage_error") }
    \cup { Matches(u, None, None, l) : u \in Usernames,
                                      l \in {None, Some(<<"g", "o">>)} }

RunRemotes ==
    { TransportError }
    \cup { Response(st, k, its) : st \in {200, 403},
                                  k \in {"items", "truncated"},
                                  its \in SeqsUpTo(RunItems, MaxItems) }
    \cup { Response(st, k, <<>>) : st \in {200, 403}, k \in {"not_json", "no_items"} }

----------------------------------------------------------------------------
(* main *)

\* The process ends in `stage` with exit status `code`
Terminate(stage, code) ==
    /\ pc' = "Exit"
    /\ stages' = stages \o <<stage, "Exit">>
    /\ exit_code' = Some(code)

\* The process goes on from `stage` to `next`
Advance(stage, next) ==
    /\ pc' = next
    /\ stages' = Append(stages, stage)
    /\ exit_code' = exit_code

Init ==
    /\ argv \in RunArgv
    /\ tokenEnv \in {"unset", "not_unicode", "set"}
    /\ remote \in RunRemotes
    /\ pc = "ParseArgs"
    /\ stages = <<"Start">>
    /\ requests = <<>>
    /\ repositories = <<>>
    /\ filtered_repos = <<>>
    /\ cursor = 0
    /\ stdout = <<>>
    /\ exit_code = None

\* Command::new(..).arg(..).get_matches(): clap prints the help and exits 0 on
\* --help, prints a usage error and exits 2 when --username is missing or an
\* argument is not understood, and returns the matches otherwise.
ParseArgs ==
    /\ pc = "ParseArgs"
    /\ IF argv.kind = "help" THEN Terminate("ParseArgs", 0)
       ELSE IF argv.kind = "usage_error" THEN Terminate("ParseArgs", 2)
       ELSE Advance("ParseArgs", "ReadCredential")
    /\ UNCHANGED <<argv, tokenEnv, remote, requests, repositories,
                   filtered_repos, cursor, stdout>>

\* ReadCredential going on with an empty token when the variable is unset
ReadCredential_or_default ==
    /\ pc = "ReadCredential"
    /\ IF tokenEnv = "not_unicode" THEN Terminate("ReadCredential", 101)
       ELSE Advance("ReadCredential", "Fetch")
    /\ UNCHANGED <<argv, tokenEnv, remote, requests, repositories,
                   filtered_repos, cursor, stdout>>

\* env::var("GITHUB_ACCESS_TOKEN").expect(..): a panic (exit status 101) when
\* the variable is unset or is not valid Unicode.
ReadCredential ==
    /\ pc = "ReadCredential"
    /\ IF tokenEnv = "set" THEN Advance("ReadCredential", "Fetch")
       ELSE Terminate("ReadCredential", 101)
    /\ UNCHANGED <<argv, tokenEnv, remote, requests, repositories,
                   filtered_repos, cursor, stdout>>

\* search_github_repositories(&search_query, &access_token).await? : one GET is
\* sent; an Err ends main with exit status 1, an Ok gives the decoded items.
Fetch ==
    /\ pc = "Fetch"
    /\ requests' = Append(requests,
                          request_target(format_url(search_query(argv.username))))
    /\ LET result == search_github_repositories(remote)
       IN  IF is_some(result)
           THEN /\ repositories' = unwrap(result)
                /\ Advance("Fetch", "Filter")
           ELSE /\ repositories' = repositories
                /\ Terminate("Fetch", 1)
    /\ UNCHANGED <<argv, tokenEnv, remote, filtered_repos, cursor, stdout>>

\* let filtered_repos = filter_repositories(repositories, title, description, language)
Filter ==
    /\ pc = "Filter"
    /\ filtered_repos' = filter_repositories(repositories, argv.title,
                                             argv.description, argv.language)
    /\ Advance("Filter", "RenderAll")
    /\ UNCHANGED <<argv, tokenEnv, remote, requests, repositories, cursor, stdout>>

\* One iteration of `for repo in filtered_repos { print_repo(repo); }`
PrintRepo ==
    /\ pc = "RenderAll"
    /\ cursor < Len(filtered_repos)
    /\ stdout' = Append(stdout, print_repo(filtered_repos[cursor + 1]))
    /\ cursor' = cursor + 1
    /\ UNCHANGED <<argv, tokenEnv, remote, pc, stages, requests, repositories,
                   filtered_repos, exit_code>>

\* Return reporting an empty result as a failure
Return_empty_is_error ==
    /\ pc = "RenderAll"
    /\ cursor = Len(filtered_repos)
    /\ Terminate("RenderAll", IF filtered_repos = <<>> THEN 1 ELSE 0)
    /\ UNCHANGED <<argv, tokenEnv, remote, requests, repositories,
                   filtered_repos, cursor, stdout>>

\* The loop is over: Ok(()) and exit status 0
Return ==
    /\ pc = "RenderAll"
    /\ cursor = Len(filtered_repos)
    /\ Terminate("RenderAll", 0)
    /\ UNCHANGED <<argv, tokenEnv, remote, requests, repositories,
                   filtered_repos, cursor, stdout>>

Next == ParseArgs \/ ReadCredential \/ Fetch \/ Filter \/ PrintRepo \/ Return

Spec == Init /\ [][Next]_vars

----------------------------------------------------------------------------
(* filter_repositories and print_repo on their own: main after a fetch that *)
(* succeeded, for every list and every combination of the three criteria   *)

InitFilter ==
    /\ argv \in { Matches(<<"a">>, t, d, l) :
                    t \in TitleArgs, d \in DescriptionArgs, l \in LanguageArgs }
    /\ tokenEnv = "set"
    /\ repositories \in SeqsUpTo(Items, MaxItems)
    /\ remote = Response(200, "items", repositories)
    /\ pc = "Filter"
    /\ stages = <<"Start", "ParseArgs", "ReadCredential", "Fetch">>
    /\ requests = <<request_target(format_url(search_query(argv.username)))>>
    /\ filtered_repos = <<>>
    /\ cursor = 0
    /\ stdout = <<>>
    /\ exit_code = None

NextFilter == Filter \/ PrintRepo \/ Return

SpecFilter == InitFilter /\ [][NextFilter]_vars

----------------------------------------------------------------------------
(* What the claims are stated with *)

Range(s) == {s[i] : i \in 1..Len(s)}

\* Two characters that are the same letter, whatever their case
SameLetter(a, b) ==
    \/ a = b
    \/ \E p \in { <<"G", "g">>, <<"O", "o">>, <<"L", "l">>, <<"A", "a">>, <<"N", "n">> } :
           \/ a = p[1] /\ b = p[2]
           \/ a = p[2] /\ b = p[1]

EqualsIgnoreCase(s, t) ==
    /\ Len(s) = Len(t)
    /\ \A i \in 1..Len(s) : SameLetter(s[i], t[i])

ContainsIgnoreCase(haystack, needle) ==
    \E off \in 0..(Len(haystack) - Len(needle)) :
        EqualsIgnoreCase(SubSeq(haystack, off + 1, off + Len(needle)), needle)

\* The item satisfies every criterion that is supplied
Satisfies(repo, title, description, language) ==
    /\ title /= None => ContainsIgnoreCase(repo.name, title[1])
    /\ description /= None =>
           /\ repo.description /= None
           /\ ContainsIgnoreCase(repo.description[1], description[1])
    /\ language /= None =>
           /\ repo.language /= None
           /\ EqualsIgnoreCase(repo.language[1], language[1])

\* sub is items with some of its positions left out, the others kept in order
IsSubsequence(sub, items) ==
    \E f \in [1..Len(sub) -> 1..Len(items)] :
        /\ \A i \in 1..Len(sub) : items[f[i]] = sub[i]
        /\ \A i \in 1..Len(sub) : \A j \in 1..Len(sub) : i < j => f[i] < f[j]

Filtered == pc \in {"RenderAll", "Exit"} /\ "Filter" \in Range(stages)

Linear == <<"Start", "ParseArgs", "ReadCredential", "Fetch", "Filter", "RenderAll", "Exit">>

\* The query string of a request target as a remote reads it: the text after
\* '?' is cut at every '&', each piece at its first '=', and in names and
\* values %20 and '+' stand for a space.
percent_decode(s) == [i \in 1..Len(s) |-> IF s[i] \in {"%20", "+"} THEN " " ELSE s[i]]

First(S) == CHOOSE i \in S : \A j \in S : i <= j

ReceivedParams(target) ==
    LET q == SubSeq(target, First({i \in 1..Len(target) : target[i] = "?"}) + 1,
                    Len(target))
        amps == {i \in 1..Len(q) : q[i] = "&"}
        n == Cardinality(amps) + 1
        sep(k) == IF k = 0 THEN 0
                  ELSE IF k = n THEN Len(q) + 1
                  ELSE CHOOSE p \in amps : Cardinality({x \in amps : x < p}) = k - 1
        piece(k) == SubSeq(q, sep(k - 1) + 1, sep(k) - 1)
        pair(s) == LET eqs == {i \in 1..Len(s) : s[i] = "="}
                   IN  IF eqs = {} THEN <<percent_decode(s), <<>>>>
                       ELSE <<percent_decode(SubSeq(s, 1, First(eqs) - 1)),
                              percent_decode(SubSeq(s, First(eqs) + 1, Len(s)))>>
    IN  [k \in 1..n |-> pair(piece(k))]

----------------------------------------------------------------------------
(* filter_repositories *)

\* C1: filter_repositories returns exactly the items that satisfy every
\* supplied criterion (substring of the name, substring of the description,
\* equality with the language, all ignoring case; an absent criterion passes),
\* and the whole input list when no criterion is supplied.
C1_FilterContract ==
    Filtered =>
        /\ filtered_repos =
               SelectSeq(repositories,
                         LAMBDA r : Satisfies(r, argv.title, argv.description,
                                              argv.language))
        /\ (argv.title = None /\ argv.description = None /\ argv.language = None)
               => filtered_repos = repositories

C1_Witness ==
    /\ Filtered
    /\ argv.title /= None /\ argv.description /= None /\ argv.language /= None
    /\ Len(repositories) = 2
    /\ Len(filtered_repos) = 1

\* C7: the output of filter_repositories is the input with some items left
\* out: the survivors are unchanged, in their input order, none twice.
C7_OrderPreserved ==
    Filtered => IsSubsequence(filtered_repos, repositories)

C7_Witness ==
    /\ Filtered
    /\ Len(repositories) = 2
    /\ repositories[1] /= repositories[2]
    /\ filtered_repos = repositories
    /\ argv.language /= None

\* C8: an item whose description is absent never passes a supplied description
\* filter, and an item whose language is absent never passes a supplied
\* language filter, the empty filter text included.
C8_AbsentFieldExcluded ==
    Filtered =>
        \A i \in 1..Len(repositories) :
            /\ (argv.description /= None /\ repositories[i].description = None)
                   => repositories[i] \notin Range(filtered_repos)
            /\ (argv.language /= None /\ repositories[i].language = None)
                   => repositories[i] \notin Range(filtered_repos)

C8_Witness ==
    /\ Filtered
    /\ argv.description = Some(<<>>)
    /\ argv.title = None /\ argv.language = None
    /\ Len(repositories) = 2
    /\ repositories[1].description = None
    /\ repositories[2].description = Some(<<>>)
    /\ filtered_repos = <<repositories[2]>>

\* C9: with only the language filter supplied, an item with a language passes
\* exactly when the two strings are equal ignoring case (a filter that is a
\* proper substring or an extension of the language does not pass); with only
\* the title, or only the description, filter supplied an item passes exactly
\* when the field contains the filter text ignoring case.
C9_LanguageIsEquality ==
    Filtered =>
        \A i \in 1..Len(repositories) :
            LET r == repositories[i]
                kept == r \in Range(filtered_repos)
            IN  /\ (argv.title = None /\ argv.description = None
                      /\ argv.language /= None /\ r.language /= None)
                       => (kept <=> EqualsIgnoreCase(r.language[1], argv.language[1]))
                /\ (argv.title /= None /\ argv.description = None
                      /\ argv.language = None)
                       => (kept <=> ContainsIgnoreCase(r.name, argv.title[1]))
                /\ (argv.title = None /\ argv.description /= None
                      /\ argv.language = None /\ r.description /= None)
                       => (kept <=> ContainsIgnoreCase(r.description[1],
                                                       argv.description[1]))

C9_Witness ==
    /\ Filtered
    /\ argv.title = None /\ argv.description = None
    /\ argv.language = Some(<<"g">>)
    /\ Len(repositories) = 2
    /\ repositories[1].language = Some(<<"G", "o">>)
    /\ repositories[2].language = Some(<<"g">>)
    /\ filtered_repos = <<repositories[2]>>

----------------------------------------------------------------------------
(* main: the stages and the ways the process ends *)

Exited == pc = "Exit"

\* C2: when the remote answers the request with a status outside 200..299 the
\* search fails: the process ends with a non-zero status and prints no block,
\* whatever the body holds.
C2_NonSuccessStatusIsFatal ==
    (requests /= <<>> /\ remote.transport = "ok" /\ remote.status \notin 200..299)
        => /\ stdout = <<>>
           /\ Exited
           /\ exit_code /= Some(0)

\* C3: a block is printed only after the whole body was fetched and decoded;
\* when the transport fails, or the body is not complete JSON or cannot be
\* decoded, the process ends with a non-zero status and no block printed.
C3_NoPartialSuccess ==
    /\ stdout /= <<>> =>
           /\ remote.transport = "ok"
           /\ remote.body.kind = "items"
           /\ repositories = remote.body.items
           /\ "Fetch" \in Range(stages)
    /\ (requests /= <<>>
          /\ (remote.transport = "error"
                \/ remote.body.kind \in {"truncated", "not_json", "no_items"}))
           => /\ Exited
              /\ exit_code = Some(1)
              /\ stdout = <<>>

C3_Witness ==
    /\ Exited
    /\ requests /= <<>>
    /\ remote.transport = "ok"
    /\ remote.body.kind = "truncated"
    /\ Len(remote.body.items) = 2
    /\ exit_code = Some(1)
    /\ stdout = <<>>

\* C4 as stated: with GITHUB_ACCESS_TOKEN unset the process ends with a
\* non-zero status, with no request sent and no block printed.
C4_UnsetTokenExitsNonZero ==
    tokenEnv = "unset" =>
        /\ requests = <<>>
        /\ stdout = <<>>
        /\ Exited => exit_code /= Some(0)

\* C4: with GITHUB_ACCESS_TOKEN unset no request is ever sent and no block is
\* ever printed: the run never enters Fetch, and it ends with a non-zero
\* status, or with status 0 at ParseArgs when the command line asks for help.
C4_UnsetTokenNoRequest ==
    tokenEnv = "unset" =>
        /\ requests = <<>>
        /\ stdout = <<>>
        /\ "Fetch" \notin Range(stages)
        /\ pc \notin {"Fetch", "Filter", "RenderAll"}
        /\ Exited =>
               \/ exit_code \notin {None, Some(0)}
               \/ /\ exit_code = Some(0)
                  /\ argv.kind = "help"
                  /\ stages = <<"Start", "ParseArgs", "Exit">>

C4_Witness ==
    /\ tokenEnv = "unset"
    /\ argv.kind = "ok"
    /\ Exited
    /\ stages = <<"Start", "ParseArgs", "ReadCredential", "Exit">>
    /\ exit_code = Some(101)
    /\ requests = <<>>

C6_QueryIsEncoded ==
    \A i \in 1..Len(requests) :
        ReceivedParams(requests[i]) =
            << <<<<"q">>, search_query(argv.username)>>,
               <<<<"per_page">>, <<"100">>>> >>

====
